---- MODULE Spec2Model ----
(***************************************************************************)
(* Model of the ITNB hierarchical scraper (src/scrape.py): the ITNBScraper *)
(* object, its crawl (_scrape_page), the content extractor, the            *)
(* hierarchical segmenter and the save phase of scrape_website.            *)
(*                                                                         *)
(* Text is a sequence of one-character strings, so that the string         *)
(* operations of the source (splitlines, strip, split, join, slicing, len) *)
(* are computed as Python computes them.                                   *)
(***************************************************************************)
EXTENDS Integers, Sequences, FiniteSets, TLC

(***************************************************************************)
(* Program constants (src/scrape.py).                                      *)
(***************************************************************************)
MinPageChars == 50
MinSegmentChars == 100
MinSectionChars == 30
MinParagraphChars == 20
ChunkLimit == 200
TitleChars == 50
DefaultMaxDepth == 2
RelevanceThreshold == 50
FallbackChars == 1500

(***************************************************************************)
(* Bounds of the model.                                                    *)
(***************************************************************************)
MaxPagesBound == 3
MaxDepthArg == 3
MaxInputs == 2
MaxAttemptsBound == 3

(***************************************************************************)
(* Characters and Python string operations.                                *)
(***************************************************************************)
NL == "\n"
SP == " "
DOT == "."

None == <<>>

\* e evaluated once, then F applied to its value
With(e, F(_)) == CHOOSE y \in {F(x) : x \in {e}} : TRUE

Min(S) == CHOOSE x \in S : \A y \in S : x <= y

Run(c, n) == [i \in 1..n |-> c]

IsSpace(c) == c \in {NL, SP}

\* str.strip(): drop leading and trailing whitespace
Strip(str) ==
    With(str, LAMBDA s :
        IF \A i \in 1..Len(s) : IsSpace(s[i]) THEN <<>>
        ELSE LET first == CHOOSE i \in 1..Len(s) :
                             ~IsSpace(s[i]) /\ \A j \in 1..(i - 1) : IsSpace(s[j])
                 last  == CHOOSE i \in 1..Len(s) :
                             ~IsSpace(s[i]) /\ \A j \in (i + 1)..Len(s) : IsSpace(s[j])
             IN  SubSeq(s, first, last))

MatchAt(s, sep, i) ==
    /\ i + Len(sep) - 1 <= Len(s)
    /\ \A k \in 1..Len(sep) : s[i + k - 1] = sep[k]

\* index of the first occurrence of sep in s at or after from, 0 when none
FindFrom(s, sep, from) ==
    With({j \in from..(Len(s) - Len(sep) + 1) : MatchAt(s, sep, j)},
         LAMBDA M : IF M = {} THEN 0 ELSE Min(M))

RECURSIVE SplitFrom(_, _, _)
SplitFrom(s, sep, from) ==
    With(FindFrom(s, sep, from), LAMBDA j :
        IF j = 0 THEN <<SubSeq(s, from, Len(s))>>
        ELSE <<SubSeq(s, from, j - 1)>> \o SplitFrom(s, sep, j + Len(sep)))

\* str.split(sep) with an explicit separator: leftmost non-overlapping matches
Split(str, sep) == With(str, LAMBDA s : SplitFrom(s, sep, 1))

\* str.splitlines(): like split on the line break, without a trailing empty line
SplitLines(str) ==
    With(Split(str, <<NL>>), LAMBDA parts :
        IF parts[Len(parts)] = <<>> THEN SubSeq(parts, 1, Len(parts) - 1) ELSE parts)

RECURSIVE JoinFrom(_, _, _)
JoinFrom(parts, sep, i) ==
    IF i > Len(parts) THEN <<>>
    ELSE IF i = Len(parts) THEN parts[i]
    ELSE parts[i] \o sep \o JoinFrom(parts, sep, i + 1)

\* sep.join(parts)
Join(list, sep) == With(list, LAMBDA parts : JoinFrom(parts, sep, 1))

RECURSIVE FlattenFrom(_, _)
FlattenFrom(seqs, i) == IF i > Len(seqs) THEN <<>> ELSE seqs[i] \o FlattenFrom(seqs, i + 1)

\* the concatenation of a list of lists
Flatten(lists) == With(lists, LAMBDA seqs : FlattenFrom(seqs, 1))

\* s[:n]
Prefix(s, n) == SubSeq(s, 1, IF Len(s) < n THEN Len(s) ELSE n)

\* phrase.strip() for phrase in line.strip().split("  ")
Phrases(rawline) ==
    With(Split(Strip(rawline), <<SP, SP>>), LAMBDA p :
        <<>> \o [k \in 1..Len(p) |-> Strip(p[k])])

\* NormalizeText without the "if chunk" filter: the empty phrases of blank
\* lines are joined too
NormalizeText_KeepsEmpty(text) ==
    With(SplitLines(text), LAMBDA rawlines :
        With(Flatten(<<>> \o [i \in 1..Len(rawlines) |-> Phrases(rawlines[i])]),
             LAMBDA chunks : Join(chunks, <<NL>>)))

\* lines/chunks/content of _extract_page_content and
\* _extract_sections_and_paragraphs: strip every line, split it on two
\* spaces, strip every phrase, join the non-empty ones with single newlines
NormalizeText(text) ==
    With(SplitLines(text), LAMBDA rawlines :
        With(Flatten(<<>> \o [i \in 1..Len(rawlines) |-> Phrases(rawlines[i])]),
             LAMBDA chunks : Join(SelectSeq(chunks, LAMBDA c : c # <<>>), <<NL>>)))

(***************************************************************************)
(* The web the crawler reads.  A response is what requests.get and          *)
(* BeautifulSoup hand to _scrape_page: a fetch error, or a parsed document   *)
(* (its h1 texts, its title texts, the text of get_text() once script and    *)
(* style are removed, and the links it carries).                             *)
(***************************************************************************)
BaseUrl == "https://www.itnb.ch/en"
AboutUrl == "https://www.itnb.ch/en/about"
ServicesUrl == "https://www.itnb.ch/en/services"
Urls == {BaseUrl, AboutUrl, ServicesUrl}

\* urlparse(url).netloc
Netloc(url) == "www.itnb.ch"

\* the anchors of each document of the site
Links(url) ==
    CASE url = BaseUrl -> {AboutUrl, ServicesUrl}
      [] url = AboutUrl -> {BaseUrl, ServicesUrl}
      [] OTHER -> {}

FetchErrors == {"timeout", "http_error", "connection_error"}

ErrorResponse(e) == [status |-> e, h1 |-> <<>>, title |-> <<>>, text |-> <<>>, links |-> {}]

Document(url, h1, title, text) ==
    [status |-> "ok", h1 |-> h1, title |-> title, text |-> text, links |-> Links(url)]

Text3(l1, s1, l2, s2, l3) == Run("a", l1) \o s1 \o Run("b", l2) \o s2 \o Run("c", l3)

BlankLine == <<NL, NL>>
TwoSpaces == <<SP, SP>>
Sentence == <<DOT, SP>>
Separators == {BlankLine, TwoSpaces, Sentence}

\* run lengths around the admission thresholds of the source
FirstRuns == {0, MinParagraphChars, MinParagraphChars + 1, MinPageChars - 1, MinPageChars}
SecondRuns == {0, MinParagraphChars + 1, MinPageChars, ChunkLimit - MinPageChars}
ThirdRuns == {0, MinSegmentChars - 2 * MinParagraphChars - 4, MinSegmentChars - 2 * MinParagraphChars - 3}

\* k lines of n letters each
ListText(n, k) == Join([i \in 1..k |-> Run("a", n)], <<NL>>)

SiteTexts ==
    {Text3(l1, s1, l2, s2, l3) :
        l1 \in FirstRuns, s1 \in Separators, l2 \in SecondRuns,
        s2 \in {BlankLine, Sentence}, l3 \in ThirdRuns}
        \cup {ListText(n, MinSegmentChars \div MinParagraphChars) :
                 n \in {MinParagraphChars, MinParagraphChars + 1}}

\* a few texts for the calls made one by one: a page one short of the page
\* threshold, one at it, and one with lines around the paragraph threshold
CallTexts ==
    { Text3(MinPageChars - 1, <<>>, 0, <<>>, 0),
      Text3(MinPageChars, <<>>, 0, <<>>, 0),
      Text3(MinParagraphChars, BlankLine, MinParagraphChars + 1, BlankLine,
            MinSegmentChars - 2 * MinParagraphChars - 3) }

\* the h1 texts and the title texts of a document
Heads == {<<<<"Heading">>, <<"Title">>>>, <<<<>>, <<"Title">>>>, <<<<>>, <<>>>>}

\* what a fetch of url by scrape_website can return
SiteResponses(url) ==
    {ErrorResponse(e) : e \in FetchErrors}
        \cup {Document(url, <<"Heading">>, <<"Title">>, t) : t \in SiteTexts}
        \cup {Document(url, hd[1], hd[2], t) : hd \in Heads, t \in CallTexts}

\* what a fetch of url by a direct _scrape_page call can return
CallResponses(url) ==
    {ErrorResponse("timeout")} \cup {Document(url, <<"Heading">>, <<"Title">>, t) : t \in CallTexts}

(***************************************************************************)
(* ITNBScraper.                                                            *)
(***************************************************************************)
\* hashlib.md5(text.encode()).hexdigest()[:12]: a function of the hashed text,
\* taken to be collision-free on the texts of one run
GenerateId(text) == <<"md5">> \o text

\* __init__
NewScraper(base_url) ==
    [ visited_urls |-> {},
      pages |-> <<>>,
      sections |-> <<>>,
      paragraphs |-> <<>>,
      index |-> [ base_url |-> base_url,
                  total_pages |-> 0,
                  total_sections |-> 0,
                  total_paragraphs |-> 0,
                  pages |-> <<>>,
                  sections |-> <<>>,
                  paragraphs |-> <<>> ] ]

\* PageTooThin with <= for <: a page of exactly 50 characters is rejected too
PageTooThin_OffByOne(content) == content = <<>> \/ Len(content) <= MinPageChars

\* if not content or len(content) < 50: return None
PageTooThin(content) == content = <<>> \/ Len(content) < MinPageChars

\* title of _extract_page_content: first h1, else title, else the host name
PageTitle(url, soup) ==
    IF soup.h1 # <<>> THEN soup.h1[1]
    ELSE IF soup.title # <<>> THEN soup.title[1]
    ELSE Netloc(url)

\* _extract_page_content: <<>> for None, <<page_data>> otherwise
ExtractPageContent(url, soup) ==
    With(NormalizeText(soup.text), LAMBDA content :
        IF PageTooThin(content) THEN <<>>
        ELSE << [ id |-> GenerateId(<<url>>),
                  title |-> PageTitle(url, soup),
                  url |-> url,
                  content |-> content,
                  character_count |-> Len(content) ] >>)

\* SegmentSkipped with the page threshold in place of the segmenter's own
SegmentSkipped_PageThreshold(content) == content = <<>> \/ Len(content) < MinPageChars

\* if not content or len(content) < 100: return
SegmentSkipped(content) == content = <<>> \/ Len(content) < MinSegmentChars

\* TinySection without the length test: every candidate section is processed
TinySection_Never(section_text) == FALSE

\* if len(section_text) < 30: continue
TinySection(section_text) == Len(section_text) < MinSectionChars

\* Substantial with >= for >: a paragraph of exactly 20 characters is admitted
Substantial_OffByOne(para_text) == Len(para_text) >= MinParagraphChars

\* if len(para_text) > 20
Substantial(para_text) == Len(para_text) > MinParagraphChars

\* HasParagraphs asking for two paragraphs: a section of one paragraph is
\* discarded after its paragraph was appended
HasParagraphs_AtLeastTwo(para_count) == para_count > 1

\* if para_count > 0
HasParagraphs(para_count) == para_count > 0

RECURSIVE Accumulate(_, _, _, _)
\* the loop over text_parts: greedy accumulation of the ". "-separated parts
Accumulate(text_parts, i, current_para, para_candidates) ==
    IF i > Len(text_parts)
    THEN IF current_para # <<>> THEN Append(para_candidates, Strip(current_para))
         ELSE para_candidates
    ELSE IF Len(current_para) + Len(text_parts[i]) > ChunkLimit
    THEN With(IF current_para # <<>> THEN Append(para_candidates, Strip(current_para))
              ELSE para_candidates,
              LAMBDA out : Accumulate(text_parts, i + 1, text_parts[i], out))
    ELSE With(IF current_para # <<>> THEN current_para \o Sentence \o text_parts[i]
              ELSE text_parts[i],
              LAMBDA cur : Accumulate(text_parts, i + 1, cur, para_candidates))

\* para_candidates of one section
ParaCandidates(section_text) ==
    IF \E i \in 1..Len(section_text) : section_text[i] = NL
    THEN Split(section_text, <<NL>>)
    ELSE With(Split(section_text, Sentence),
              LAMBDA text_parts : Accumulate(text_parts, 1, <<>>, <<>>))

ParagraphData(url, page_id, section_id, para_text, paragraph_counter) ==
    [ id |-> GenerateId(<<url, "#para#", paragraph_counter>>),
      section_id |-> section_id,
      page_id |-> page_id,
      content |-> para_text,
      character_count |-> Len(para_text),
      url |-> url ]

\* the entry of self.index["paragraphs"] for a paragraph of text para_text
ParagraphEntry(p, para_text) ==
    [ id |-> p.id, section_id |-> p.section_id, page_id |-> p.page_id,
      character_count |-> Len(para_text) ]

\* the body of the loop over para_candidates for an admitted para_text
AdmitParagraph(url, page_id, section_id, para_text, acc) ==
    With(ParagraphData(url, page_id, section_id, para_text, acc.paragraph_counter + 1),
         LAMBDA p :
            [ paragraph_counter |-> acc.paragraph_counter + 1,
              para_count |-> acc.para_count + 1,
              paragraphs |-> Append(acc.paragraphs, p),
              ix_paragraphs |-> Append(acc.ix_paragraphs, ParagraphEntry(p, para_text)) ])

RECURSIVE ProcessParagraphs(_, _, _, _, _, _)
\* the loop over para_candidates; acc carries paragraph_counter, para_count
\* and the records appended to self.paragraphs and self.index["paragraphs"]
ProcessParagraphs(url, page_id, section_id, para_candidates, i, acc) ==
    IF i > Len(para_candidates) THEN acc
    ELSE With(Strip(para_candidates[i]), LAMBDA para_text :
            IF Substantial(para_text)
            THEN With(AdmitParagraph(url, page_id, section_id, para_text, acc),
                      LAMBDA next :
                         ProcessParagraphs(url, page_id, section_id, para_candidates,
                                           i + 1, next))
            ELSE ProcessParagraphs(url, page_id, section_id, para_candidates, i + 1, acc))

\* SectionData without the late assignment of paragraph_count: the count
\* stays at the 0 the record is created with
SectionData_CountNotSet(section_id, page_id, section_title, url, para_count) ==
    [ id |-> section_id,
      page_id |-> page_id,
      title |-> section_title,
      url |-> url,
      paragraph_count |-> 0 ]

SectionData(section_id, page_id, section_title, url, para_count) ==
    [ id |-> section_id,
      page_id |-> page_id,
      title |-> section_title,
      url |-> url,
      paragraph_count |-> para_count ]

\* the body of the loop over sections_text for a section that is not tiny
ProcessSection(url, page_id, section_text, acc) ==
    With(Prefix(Split(section_text, <<NL>>)[1], TitleChars), LAMBDA section_title :
    With(GenerateId(<<url, "#", acc.section_counter + 1, "#", section_title>>),
         LAMBDA section_id :
    With(ParaCandidates(section_text), LAMBDA para_candidates :
    With(ProcessParagraphs(url, page_id, section_id, para_candidates, 1,
                           [ paragraph_counter |-> acc.paragraph_counter,
                             para_count |-> 0,
                             paragraphs |-> acc.paragraphs,
                             ix_paragraphs |-> acc.ix_paragraphs ]),
         LAMBDA done :
            [ section_counter |-> acc.section_counter + 1,
              paragraph_counter |-> done.paragraph_counter,
              sections |->
                  IF HasParagraphs(done.para_count)
                  THEN Append(acc.sections,
                              SectionData(section_id, page_id, section_title, url,
                                          done.para_count))
                  ELSE acc.sections,
              ix_sections |->
                  IF HasParagraphs(done.para_count)
                  THEN Append(acc.ix_sections,
                              [id |-> section_id, title |-> section_title,
                               page_id |-> page_id])
                  ELSE acc.ix_sections,
              paragraphs |-> done.paragraphs,
              ix_paragraphs |-> done.ix_paragraphs ]))))

RECURSIVE ProcessSections(_, _, _, _, _)
\* the loop over sections_text; acc carries section_counter, paragraph_counter
\* and the records appended to the collections and to the index
ProcessSections(url, page_id, sections_text, i, acc) ==
    IF i > Len(sections_text) THEN acc
    ELSE IF TinySection(sections_text[i])
    THEN ProcessSections(url, page_id, sections_text, i + 1, acc)
    ELSE With(ProcessSection(url, page_id, sections_text[i], acc), LAMBDA next :
            ProcessSections(url, page_id, sections_text, i + 1, next))

\* the candidate sections of a page: content.split('\n\n')
SectionsText(content) == Split(content, BlankLine)

\* _extract_sections_and_paragraphs: the records it appends, in order
ExtractSectionsAndParagraphs(url, soup, page_id) ==
    With(NormalizeText(soup.text), LAMBDA content :
        LET nothing == [ section_counter |-> 0, paragraph_counter |-> 0,
                         sections |-> <<>>, ix_sections |-> <<>>,
                         paragraphs |-> <<>>, ix_paragraphs |-> <<>> ]
        IN  IF SegmentSkipped(content) THEN nothing
            ELSE With(SectionsText(content), LAMBDA sections_text :
                    ProcessSections(url, page_id, sections_text, 1, nothing)))

\* CrawlStops without the page cap: only the depth stops a call
CrawlStops_DepthOnly(depth, max_depth, n_visited, maxp) == depth > max_depth

\* CrawlStops with > for >= in the page cap: one URL too many is visited
CrawlStops_CapOffByOne(depth, max_depth, n_visited, maxp) ==
    depth > max_depth \/ n_visited > maxp

\* if depth > max_depth or len(self.visited_urls) >= self.max_pages: return
CrawlStops(depth, max_depth, n_visited, maxp) == depth > max_depth \/ n_visited >= maxp

\* AlreadyVisited without the membership test: every URL counts as new
AlreadyVisited_NoCheck(url, visited) == FALSE

\* if url in self.visited_urls: return
AlreadyVisited(url, visited) == url \in visited

\* ScrapeDocument keying the segments by the scraper's base_url instead of
\* the URL of the page
ScrapeDocument_KeyedByBaseUrl(self, url, soup) ==
    With(ExtractPageContent(url, soup), LAMBDA page_data :
    With(ExtractSectionsAndParagraphs(self.index.base_url, soup,
            IF page_data # <<>> THEN page_data[1].id ELSE None), LAMBDA seg :
        [ self EXCEPT
            !.pages = self.pages \o page_data,
            !.sections = self.sections \o seg.sections,
            !.paragraphs = self.paragraphs \o seg.paragraphs,
            !.index = [ self.index EXCEPT
                          !.sections = self.index.sections \o seg.ix_sections,
                          !.paragraphs = self.index.paragraphs \o seg.ix_paragraphs ] ]))

\* the try block of _scrape_page on a parsed document
ScrapeDocument(self, url, soup) ==
    With(ExtractPageContent(url, soup), LAMBDA page_data :
    With(ExtractSectionsAndParagraphs(url, soup,
            IF page_data # <<>> THEN page_data[1].id ELSE None), LAMBDA seg :
        [ self EXCEPT
            !.pages = self.pages \o page_data,
            !.sections = self.sections \o seg.sections,
            !.paragraphs = self.paragraphs \o seg.paragraphs,
            !.index = [ self.index EXCEPT
                          !.pages =
                              IF page_data # <<>>
                              THEN Append(self.index.pages,
                                          [id |-> page_data[1].id,
                                           title |-> page_data[1].title,
                                           url |-> page_data[1].url])
                              ELSE self.index.pages,
                          !.sections = self.index.sections \o seg.ix_sections,
                          !.paragraphs = self.index.paragraphs \o seg.ix_paragraphs ] ]))

\* FetchFailed without the except clause: the error leaves _scrape_page
FetchFailed_NotCaught(self) == [self |-> self, raised |-> TRUE]

\* except Exception: the error is printed and the call returns normally,
\* the scraper as it was when the fetch raised
FetchFailed(self) == [self |-> self, raised |-> FALSE]

\* ScrapePage marking the URL visited after the fetch instead of before it:
\* a URL whose fetch raised is not marked
ScrapePage_MarksAfterFetch(scraper, maxp, url, depth, max_depth, resp) ==
    With(scraper, LAMBDA self :
        IF CrawlStops(depth, max_depth, Cardinality(self.visited_urls), maxp)
        THEN [self |-> self, requests |-> <<>>, raised |-> FALSE]
        ELSE IF AlreadyVisited(url, self.visited_urls)
        THEN [self |-> self, requests |-> <<>>, raised |-> FALSE]
        ELSE With([self EXCEPT !.visited_urls = self.visited_urls \cup {url}],
                  LAMBDA marked :
                IF resp.status = "ok"
                THEN [self |-> ScrapeDocument(marked, url, resp),
                      requests |-> <<[url |-> url, resp |-> resp]>>,
                      raised |-> FALSE]
                ELSE [self |-> FetchFailed(self).self,
                      requests |-> <<[url |-> url, resp |-> resp]>>,
                      raised |-> FetchFailed(self).raised]))

\* _scrape_page(url, depth, max_depth): the scraper after the call, the
\* requests.get calls it made and whether an exception left the call
ScrapePage(scraper, maxp, url, depth, max_depth, resp) ==
    With(scraper, LAMBDA self :
        IF CrawlStops(depth, max_depth, Cardinality(self.visited_urls), maxp)
        THEN [self |-> self, requests |-> <<>>, raised |-> FALSE]
        ELSE IF AlreadyVisited(url, self.visited_urls)
        THEN [self |-> self, requests |-> <<>>, raised |-> FALSE]
        ELSE With([self EXCEPT !.visited_urls = self.visited_urls \cup {url}],
                  LAMBDA marked :
                IF resp.status = "ok"
                THEN [self |-> ScrapeDocument(marked, url, resp),
                      requests |-> <<[url |-> url, resp |-> resp]>>,
                      raised |-> FALSE]
                ELSE [self |-> FetchFailed(marked).self,
                      requests |-> <<[url |-> url, resp |-> resp]>>,
                      raised |-> FetchFailed(marked).raised]))

\* SaveFiles writing index.json ahead of the entity files
SaveFiles_IndexFirst(self) ==
    << <<"index.json">> >>
        \o [i \in 1..Len(self.pages) |-> <<"pages", self.pages[i].id>>]
        \o [i \in 1..Len(self.sections) |-> <<"sections", self.sections[i].id>>]
        \o [i \in 1..Len(self.paragraphs) |-> <<"paragraphs", self.paragraphs[i].id>>]
        \o << <<"complete_export.json">> >>

\* the files _save_organized_data writes, in the order it writes them
SaveFiles(self) ==
    [i \in 1..Len(self.pages) |-> <<"pages", self.pages[i].id>>]
        \o [i \in 1..Len(self.sections) |-> <<"sections", self.sections[i].id>>]
        \o [i \in 1..Len(self.paragraphs) |-> <<"paragraphs", self.paragraphs[i].id>>]
        \o << <<"index.json">>, <<"complete_export.json">> >>

\* the number of entity files, written before the index totals are set
EntityFiles(self) == Len(self.pages) + Len(self.sections) + Len(self.paragraphs)

\* the filesystem operations of _save_organized_data: makedirs, then the files
SaveSteps(self) == 1 + Len(SaveFiles(self))

\* SaveOrganizedData writing the index with the totals of __init__
SaveOrganizedData_TotalsUnset(self, fail_at) ==
    LET files == SaveFiles(self)
        written == IF fail_at = 0 THEN files ELSE SubSeq(files, 1, fail_at - 2)
    IN  [ self |-> self, written |-> written, raised |-> fail_at # 0 ]

\* _save_organized_data when its fail_at-th filesystem operation raises
\* (0: none does): the scraper after it, the files written, whether it raised
SaveOrganizedData(self, fail_at) ==
    LET files == SaveFiles(self)
        written == IF fail_at = 0 THEN files ELSE SubSeq(files, 1, fail_at - 2)
        counted == fail_at = 0 \/ fail_at > 1 + EntityFiles(self)
    IN  [ self |-> IF counted
                   THEN [self EXCEPT !.index =
                           [ self.index EXCEPT
                               !.total_pages = Len(self.pages),
                               !.total_sections = Len(self.sections),
                               !.total_paragraphs = Len(self.paragraphs) ]]
                   ELSE self,
          written |-> written,
          raised |-> fail_at # 0 ]

\* ScrapeWebsiteReturns with the failure swallowed: True whatever happened
ScrapeWebsiteReturns_AlwaysTrue(raised) == "True"

\* scrape_website: return True at the end of the try block, False from
\* except Exception
ScrapeWebsiteReturns(raised) == IF raised THEN "False" ELSE "True"

\* exit(0 if success else 1) of scrape.py
ScrapeExit(success) == IF success = "True" THEN 0 ELSE 1

(***************************************************************************)
(* chat.py: the platform, the language model and the user as they answer.  *)
(***************************************************************************)
UpperLetters == <<"E", "I", "Q", "T", "U", "X">>
LowerLetters == <<"e", "i", "q", "t", "u", "x">>

\* str.lower(), on the letters the inputs are written with
LowerChar(c) ==
    IF \E k \in 1..Len(UpperLetters) : UpperLetters[k] = c
    THEN LowerLetters[CHOOSE k \in 1..Len(UpperLetters) : UpperLetters[k] = c]
    ELSE c

Lower(str) == <<>> \o [k \in 1..Len(str) |-> LowerChar(str[k])]

\* ['exit', 'quit', 'q']
ExitCommands == {<<"e", "x", "i", "t">>, <<"q", "u", "i", "t">>, <<"q">>}

\* the lines a user types at the prompt
Inputs ==
    { <<>>,
      <<SP, SP>>,
      <<"e", "x", "i", "t">>,
      <<SP, "Q", "u", "i", "t", SP>>,
      <<"Q">>,
      <<"q", "u", "i", "t", SP, "i", "t">>,
      <<"i", "t", "n", "b", "?">> }

\* GroundX(api_key=...): the client is built, or the constructor raises
ClientOutcomes == {"ok", "raises"}

SourceUrl == "https://www.itnb.ch/en"

\* response.search of client.search.content
SearchData(results, count, score, text) ==
    [kind |-> "search", results |-> results, count |-> count, score |-> score,
     text |-> text]

OneResult == <<[source_url |-> SourceUrl]>>

\* search_data.text: nothing, or a text around the length the fallback cuts at
Contexts ==
    { <<>>,
      Run("x", FallbackChars),
      Run("x", FallbackChars) \o <<"y">>,
      Run("x", FallbackChars) \o Run("y", FallbackChars \div 3) }

LongContext == Run("x", FallbackChars) \o Run("y", FallbackChars \div 3)

\* what client.search.content does: it raises, it answers without a search
\* object, or it answers with search data
SearchResponses ==
    {[kind |-> "raises"], [kind |-> "no_search"]}
    \cup {SearchData(results, count, score, LongContext) :
            results \in {<<>>, OneResult},
            count \in {0, 1, 3},
            score \in {RelevanceThreshold - 1, RelevanceThreshold}}
    \cup {SearchData(OneResult, 1, score, text) :
            score \in {RelevanceThreshold, 2 * RelevanceThreshold},
            text \in Contexts}

LlmAnswer == <<"ITNB is a Swiss provider of sovereign cloud and AI services.">>

\* what requests.post to the LLM endpoint does: it raises, it answers with
\* another status than 200, or with 200 and a completion (possibly empty)
LlmOutcomes ==
    { [kind |-> "raises", status_code |-> 0, content |-> <<>>],
      [kind |-> "response", status_code |-> 500, content |-> <<>>],
      [kind |-> "response", status_code |-> 200, content |-> <<>>],
      [kind |-> "response", status_code |-> 200, content |-> LlmAnswer] }

(***************************************************************************)
(* chat.py: generate_llm_response and search_and_display.                  *)
(***************************************************************************)
\* generate_llm_response: the completion, or None
GenerateLlmResponse(llm) ==
    IF llm.kind = "raises" THEN None
    ELSE IF llm.status_code = 200 THEN llm.content
    ELSE None

\* what search_and_display prints: the banner of the block and, under
\* ANSWER, the text of the answer
Display(banner, body) == [banner |-> banner, body |-> body]

NoDisplay == Display("", <<>>)

TruncationMarker == <<"\n\n[... answer truncated for readability ...]">>

NoDetailedAnswer == <<"No detailed answer available.">>

\* not search_data.results or search_data.count == 0
EmptyResult(search_data) == search_data.results = <<>> \/ search_data.count = 0

\* LowRelevance with the threshold one lower
LowRelevance_OffByOne(score) == score < RelevanceThreshold - 1

\* search_data.score < 50
LowRelevance(score) == score < RelevanceThreshold

\* Verdict with the score check ahead of the empty-result check
Verdict_ScoreFirst(search_data) ==
    IF LowRelevance(search_data.score) THEN "LOW RELEVANCE"
    ELSE IF EmptyResult(search_data) THEN "NO INFORMATION FOUND"
    ELSE "ANSWER"

\* the two validations of search_and_display, in their order
Verdict(search_data) ==
    IF EmptyResult(search_data) THEN "NO INFORMATION FOUND"
    ELSE IF LowRelevance(search_data.score) THEN "LOW RELEVANCE"
    ELSE "ANSWER"

\* RawContext without the cut
RawContext_Uncut(context) == context

\* the raw context as the fallback prints it
RawContext(context) ==
    IF Len(context) > FallbackChars
    THEN SubSeq(context, 1, FallbackChars) \o TruncationMarker
    ELSE context

\* the text printed under ANSWER
AnswerBody(llm_response, context) ==
    IF llm_response # <<>> THEN llm_response
    ELSE IF context # <<>> THEN RawContext(context)
    ELSE NoDetailedAnswer

\* the outcome of one search_and_display call: what it printed, what it
\* returned ("raised" when an exception left the call), and the calls it
\* made to the platform and to the LLM
SearchOutcome(ret, display, searches, llm_calls) ==
    [ret |-> ret, display |-> display, searches |-> searches, llm_calls |-> llm_calls]

SearchAndDisplay(client, response, llm) ==
    IF client = "raises" THEN SearchOutcome("raised", NoDisplay, 0, 0)
    ELSE IF response.kind = "raises"
    THEN SearchOutcome("False", Display("Error", <<"Search error">>), 1, 0)
    ELSE IF response.kind = "no_search"
    THEN SearchOutcome("False", Display("NO INFORMATION FOUND", <<>>), 1, 0)
    ELSE With(Verdict(response), LAMBDA verdict :
            IF verdict # "ANSWER"
            THEN SearchOutcome("False", Display(verdict, <<>>), 1, 0)
            ELSE With(GenerateLlmResponse(llm), LAMBDA llm_response :
                    SearchOutcome("True",
                                  Display("ANSWER", AnswerBody(llm_response, response.text)),
                                  1, 1)))

(***************************************************************************)
(* chat.py: main, the interactive loop.                                    *)
(***************************************************************************)
\* IsExitCommand comparing the input as typed
IsExitCommand_CaseSensitive(question) == question \in ExitCommands

\* question.lower() in ['exit', 'quit', 'q']
IsExitCommand(question) == Lower(question) \in ExitCommands

\* the farewell block: which one, and the count it prints
Summary(kind, query_count) == [kind |-> kind, count |-> query_count]

NoSummary == Summary("", 0)

\* AfterSearch treating an exception of the search as the end of the session
AfterSearch_RaiseEndsLoop(ret) == IF ret = "raised" THEN "ended" ELSE "prompt"

\* where main stands after search_and_display: a return value is dropped,
\* an exception is caught by except Exception and the loop goes on
AfterSearch(ret) == "prompt"

\* ProcessQuery counting the queries whose search returned True only
ProcessQuery_CountsSuccessOnly(query_count, outcome) ==
    [ query_count |-> IF outcome.ret = "True" THEN query_count + 1 ELSE query_count,
      pc |-> AfterSearch(outcome.ret),
      display |-> IF outcome.ret = "raised"
                  THEN Display("Error", <<"Unexpected error">>)
                  ELSE outcome.display ]

\* the PROCESS QUERY block of the loop and the except Exception clause
\* around it: the count goes up ahead of the search, whatever it returns
ProcessQuery(query_count, outcome) ==
    [ query_count |-> query_count + 1,
      pc |-> AfterSearch(outcome.ret),
      display |-> IF outcome.ret = "raised"
                  THEN Display("Error", <<"Unexpected error">>)
                  ELSE outcome.display ]

\* the latest search_and_display call: how the platform and the LLM answered
\* and what the call did
Asked(client, response, llm, outcome) ==
    [client |-> client, response |-> response, llm |-> llm, outcome |-> outcome]

NoAsked == Asked("", [kind |-> ""], [kind |-> ""], SearchOutcome("", NoDisplay, 0, 0))

\* the chat session before main runs: where main stands, its query_count,
\* the lines read so far, what the latest iteration was and printed, the
\* searches issued, the searches that did not return True, and the farewell
NoChat ==
    [ pc |-> "idle", query_count |-> 0, history |-> <<>>, last |-> "",
      display |-> NoDisplay, asked |-> NoAsked, searches |-> 0, failed |-> 0,
      summary |-> NoSummary ]

(***************************************************************************)
(* check_status.py: check_status and check_status_continuous.              *)
(***************************************************************************)
Statuses == {"queued", "training", "complete", "error"}

\* what client.documents.get_processing_status_by_id does: it raises, it
\* answers without an ingest object, or it answers with the ingest status
StatusResponses ==
    {[kind |-> "raises", status |-> ""], [kind |-> "no_ingest", status |-> ""]}
    \cup {[kind |-> "ingest", status |-> st] : st \in Statuses}

\* the outcome of one check_status call: whether an exception left the call
\* and the response it returned (None when it returned None)
Checked(raised, response) == [raised |-> raised, response |-> response]

\* check_status(process_id): the client is built ahead of the try block
CheckStatus(client, response) ==
    IF client = "raises" THEN Checked(TRUE, None)
    ELSE IF response.kind = "raises" THEN Checked(FALSE, None)
    ELSE IF response.kind = "no_ingest" THEN Checked(FALSE, None)
    ELSE Checked(FALSE, response)

\* response and response.ingest and response.ingest.status == 'complete'
IsComplete(response) == response # None /\ response.status = "complete"

\* PollRound giving up on the first check_status call that returns None
PollRound_AbortsOnNone(poll, r) ==
    IF r.raised
    THEN [poll EXCEPT !.pc = "raised", !.checks = @ + 1]
    ELSE IF IsComplete(r.response)
    THEN [poll EXCEPT !.pc = "returned", !.ret = "True", !.checks = @ + 1]
    ELSE IF r.response = None
    THEN [poll EXCEPT !.pc = "returned", !.ret = "False", !.checks = @ + 1]
    ELSE [poll EXCEPT !.attempt = @ + 1,
                      !.checks = @ + 1,
                      !.sleeps = IF poll.attempt + 1 < poll.max_attempts
                                 THEN @ + 1 ELSE @]

\* one round of the while loop of check_status_continuous on the outcome
\* of its check_status call
PollRound(poll, r) ==
    IF r.raised
    THEN [poll EXCEPT !.pc = "raised", !.checks = @ + 1]
    ELSE IF IsComplete(r.response)
    THEN [poll EXCEPT !.pc = "returned", !.ret = "True", !.checks = @ + 1]
    ELSE [poll EXCEPT !.attempt = @ + 1,
                      !.checks = @ + 1,
                      !.sleeps = IF poll.attempt + 1 < poll.max_attempts
                                 THEN @ + 1 ELSE @]

\* check_status.py <process_id> [--continuous]: the mode, where the script
\* stands, max_attempts, attempt, the check_status calls made, the sleeps
\* taken, the return value and the latest call with its outcome
NewPoll(mode, max_attempts) ==
    [ mode |-> mode, pc |-> "start", max_attempts |-> max_attempts, attempt |-> 0,
      checks |-> 0, sleeps |-> 0, ret |-> "",
      asked |-> [client |-> "", response |-> [kind |-> "", status |-> ""],
                 outcome |-> Checked(FALSE, None)] ]

NoPoll == [NewPoll("", 0) EXCEPT !.pc = "idle"]

(***************************************************************************)
(* ingest.py: ingest_content and the two ingestion functions.              *)
(***************************************************************************)
\* scraped_data/index.json: absent, a valid index, text that is no JSON, or
\* JSON without the totals
IndexFiles == {"missing", "valid", "corrupt", "incomplete"}

\* what client.documents.crawl_website does: it raises, it answers without
\* an ingest record, or it answers with the record of the process
CrawlResponses ==
    { [kind |-> "raises"], [kind |-> "no_ingest"], [kind |-> "ingest"] }

\* the outcome of an ingestion function: its return value ("raised" when an
\* exception left it), the crawl_website requests it made and the error it
\* printed
Ingested(ret, submits, reported) ==
    [ret |-> ret, submits |-> submits, reported |-> reported]

\* client.documents.crawl_website(websites=[website]) and what follows it,
\* inside the try block
Submit(response, error_msg) ==
    IF response.kind = "raises" THEN Ingested("False", 1, error_msg)
    ELSE IF response.kind = "no_ingest"
    THEN Ingested("False", 1, "ERROR: No response from GroundX API")
    ELSE Ingested("True", 1, "")

\* ingest_hierarchical_content: the index is read and the client is built
\* inside the try block
IngestHierarchicalContent(index_file, client, response) ==
    IF index_file = "missing"
    THEN Ingested("False", 0, "ERROR: scraped_data/index.json not found.")
    ELSE IF index_file \in {"corrupt", "incomplete"} \/ client = "raises"
    THEN Ingested("False", 0, "Error during hierarchical ingestion")
    ELSE Submit(response, "Error during hierarchical ingestion")

\* ingest_website_crawl: the client is built ahead of the try block
IngestWebsiteCrawl(client, response) ==
    IF client = "raises" THEN Ingested("raised", 0, "")
    ELSE Submit(response, "Error during website crawl ingestion")

\* IngestContent falling back to the website crawl when the hierarchical
\* ingestion fails
IngestContent_FallsBack(index_file, client, response) ==
    IF index_file # "missing"
    THEN With(IngestHierarchicalContent(index_file, client, response), LAMBDA h :
            IF h.ret = "True" THEN h
            ELSE With(IngestWebsiteCrawl(client, response), LAMBDA w :
                    Ingested(w.ret, h.submits + w.submits, w.reported)))
    ELSE IngestWebsiteCrawl(client, response)

\* ingest_content: one of the two functions, by the presence of the index
IngestContent(index_file, client, response) ==
    IF index_file # "missing"
    THEN IngestHierarchicalContent(index_file, client, response)
    ELSE IngestWebsiteCrawl(client, response)

\* exit(0 if success else 1); an exception that leaves the script ends it
\* with a traceback
ExitCode(ret) == IF ret = "True" THEN 0 ELSE 1

\* ingest.py: where the script stands, what it was given and what it did
NewIngest ==
    [ pc |-> "start", index_file |-> "", client |-> "", response |-> [kind |-> ""],
      outcome |-> Ingested("", 0, ""), exit_code |-> 0 ]

NoIngest == [NewIngest EXCEPT !.pc = "idle"]

(***************************************************************************)
(* State.                                                                  *)
(***************************************************************************)
VARIABLES
    max_pages,      \* self.max_pages
    visited_urls,   \* self.visited_urls
    pages,          \* self.pages
    sections,       \* self.sections
    paragraphs,     \* self.paragraphs
    index,          \* self.index
    pc,             \* where the caller of the scraper stands
    result,         \* what scrape_website returned
    disk,           \* the files written under scraped_data/, in order
    save_failed_at, \* the filesystem operation of the save that raised, 0: none
    requests,       \* the requests.get calls made so far, with their responses
    last_call,      \* the arguments of the latest _scrape_page call
    twin,           \* a second ITNBScraper object of the same process
    candidates,     \* the sections_text a segmenter loop was run on
    program,        \* the script that runs
    chat,           \* chat.py: the session of main
    poll,           \* check_status.py: the status checks
    ingest          \* ingest.py: the ingestion

vars == <<max_pages, visited_urls, pages, sections, paragraphs, index, pc, result,
          disk, save_failed_at, requests, last_call, twin, candidates, program, chat,
          poll, ingest>>

\* the variables of the scraper and those of the platform clients
scraper == <<max_pages, visited_urls, pages, sections, paragraphs, index, pc, result,
             disk, save_failed_at, requests, last_call, twin, candidates>>
clients == <<program, chat, poll, ingest>>

Self ==
    [ visited_urls |-> visited_urls, pages |-> pages, sections |-> sections,
      paragraphs |-> paragraphs, index |-> index ]

Becomes(self) ==
    /\ visited_urls' = self.visited_urls
    /\ pages' = self.pages
    /\ sections' = self.sections
    /\ paragraphs' = self.paragraphs
    /\ index' = self.index

NoCall == [url |-> "", depth |-> 0, max_depth |-> 0]

\* a second scraper object: its constructor arguments, its collections and
\* whether its _scrape_page has been called
Twin(base_url, maxp) == [max_pages |-> maxp, self |-> NewScraper(base_url), ran |-> FALSE]

\* scrape_itnb builds one scraper only
NoTwin == Twin(BaseUrl, 0)

\* ITNBScraper(base_url, max_pages)
Init ==
    /\ max_pages \in -1..MaxPagesBound
    /\ visited_urls = NewScraper(BaseUrl).visited_urls
    /\ pages = NewScraper(BaseUrl).pages
    /\ sections = NewScraper(BaseUrl).sections
    /\ paragraphs = NewScraper(BaseUrl).paragraphs
    /\ index = NewScraper(BaseUrl).index
    /\ pc = "new"
    /\ result = "none"
    /\ disk = <<>>
    /\ save_failed_at = 0
    /\ requests = <<>>
    /\ last_call = NoCall
    /\ twin = NoTwin
    /\ candidates = <<>>
    /\ program = "scrape.py"
    /\ chat = NoChat
    /\ poll = NoPoll
    /\ ingest = NoIngest

(***************************************************************************)
(* scrape_website, in its two phases.                                      *)
(***************************************************************************)
\* the crawling phase: self._scrape_page(self.base_url, 0)
ScrapeWebsiteCrawl ==
    /\ pc = "new"
    /\ \E resp \in SiteResponses(BaseUrl) :
          \E r \in {ScrapePage(Self, max_pages, BaseUrl, 0, DefaultMaxDepth, resp)} :
              /\ Becomes(r.self)
              /\ requests' = requests \o r.requests
              /\ pc' = IF r.raised THEN "returned" ELSE "crawled"
              /\ result' = IF r.raised THEN ScrapeWebsiteReturns(TRUE) ELSE result
    /\ last_call' = [url |-> BaseUrl, depth |-> 0, max_depth |-> DefaultMaxDepth]
    /\ UNCHANGED <<max_pages, disk, save_failed_at, twin, candidates>>
    /\ UNCHANGED clients

\* the saving phase: self._save_organized_data(), then the return
ScrapeWebsiteSave ==
    /\ pc = "crawled"
    /\ \E fail_at \in 0..SaveSteps(Self) :
          \E r \in {SaveOrganizedData(Self, fail_at)} :
              /\ Becomes(r.self)
              /\ disk' = disk \o r.written
              /\ save_failed_at' = fail_at
              /\ result' = ScrapeWebsiteReturns(r.raised)
    /\ pc' = "returned"
    /\ UNCHANGED <<max_pages, requests, last_call, twin, candidates>>
    /\ UNCHANGED clients

(***************************************************************************)
(* The methods of the scraper called one by one.                           *)
(***************************************************************************)
\* scraper._scrape_page(url, depth)
ScrapePageCall ==
    /\ pc \in {"new", "calls"}
    /\ \E url \in Urls, depth \in DefaultMaxDepth..MaxDepthArg :
          /\ \E resp \in CallResponses(url) :
                \E r \in {ScrapePage(Self, max_pages, url, depth, DefaultMaxDepth, resp)} :
                    /\ Becomes(r.self)
                    /\ requests' = requests \o r.requests
                    /\ pc' = IF r.raised THEN "call_raised" ELSE "calls"
          /\ last_call' = [url |-> url, depth |-> depth, max_depth |-> DefaultMaxDepth]
    /\ UNCHANGED <<max_pages, result, disk, save_failed_at, twin, candidates>>
    /\ UNCHANGED clients

\* scraper._save_organized_data(): it completes, or the directories cannot
\* be created (the later failure points are those of ScrapeWebsiteSave)
SaveOrganizedDataCall ==
    /\ pc = "calls"
    /\ \E fail_at \in {0, 1} :
          \E r \in {SaveOrganizedData(Self, fail_at)} :
              /\ Becomes(r.self)
              /\ disk' = disk \o r.written
              /\ save_failed_at' = fail_at
              /\ pc' = IF r.raised THEN "save_raised" ELSE "saved"
    /\ UNCHANGED <<max_pages, result, requests, last_call, twin, candidates>>
    /\ UNCHANGED clients

\* KeyboardInterrupt while the crawl waits for requests.get: no except
\* clause of _scrape_page or scrape_website catches it, the script ends
ScrapeInterrupt ==
    /\ pc = "new"
    /\ ~CrawlStops(0, DefaultMaxDepth, Cardinality(visited_urls), max_pages)
    /\ ~AlreadyVisited(BaseUrl, visited_urls)
    /\ visited_urls' = visited_urls \cup {BaseUrl}
    /\ pc' = "interrupted"
    /\ last_call' = [url |-> BaseUrl, depth |-> 0, max_depth |-> DefaultMaxDepth]
    /\ UNCHANGED <<max_pages, pages, sections, paragraphs, index, result, disk,
                   save_failed_at, requests, twin, candidates>>
    /\ UNCHANGED clients

Next ==
    \/ ScrapeWebsiteCrawl
    \/ ScrapeWebsiteSave
    \/ ScrapePageCall
    \/ SaveOrganizedDataCall
    \/ ScrapeInterrupt

Spec == Init /\ [][Next]_vars

(***************************************************************************)
(* Two scraper objects given the same page.  Both are fresh; they may      *)
(* differ in their constructor arguments, in the depth they are called at  *)
(* and in the head (h1, title) of the document they receive.               *)
(***************************************************************************)
TwinBases == {BaseUrl, AboutUrl}

\* what the page may answer: a fetch error, a page too short to segment, or
\* a page of one to three blocks around each kind of separator
SegResponses(url) ==
    {ErrorResponse("timeout")}
    \cup {Document(url, <<"Heading">>, <<"Title">>, t) :
             t \in CallTexts
                 \cup {ListText(MinParagraphChars + 1, 5)}
                 \cup {Text3(l1, s1, MinPageChars, Sentence, ThirdRun) :
                          l1 \in {MinParagraphChars, MinPageChars},
                          s1 \in Separators,
                          ThirdRun \in ThirdRuns \ {0}}}

\* ITNBScraper(max_pages=...) and ITNBScraper(base_url=..., max_pages=...)
SegInit ==
    /\ max_pages \in 1..MaxPagesBound
    /\ visited_urls = NewScraper(BaseUrl).visited_urls
    /\ pages = NewScraper(BaseUrl).pages
    /\ sections = NewScraper(BaseUrl).sections
    /\ paragraphs = NewScraper(BaseUrl).paragraphs
    /\ index = NewScraper(BaseUrl).index
    /\ pc = "new"
    /\ result = "none"
    /\ disk = <<>>
    /\ save_failed_at = 0
    /\ requests = <<>>
    /\ last_call = NoCall
    /\ twin \in {Twin(b, m) : b \in TwinBases, m \in {1, MaxPagesBound}}
    /\ candidates = <<>>
    /\ program = "scrape.py"
    /\ chat = NoChat
    /\ poll = NoPoll
    /\ ingest = NoIngest

\* first._scrape_page(url, 0)
SegFirst ==
    /\ pc = "new"
    /\ \E url \in TwinBases :
          /\ \E resp \in SegResponses(url) :
                \E r \in {ScrapePage(Self, max_pages, url, 0, DefaultMaxDepth, resp)} :
                    /\ Becomes(r.self)
                    /\ requests' = requests \o r.requests
          /\ last_call' = [url |-> url, depth |-> 0, max_depth |-> DefaultMaxDepth]
    /\ pc' = "first_ran"
    /\ UNCHANGED <<max_pages, result, disk, save_failed_at, twin, candidates>>
    /\ UNCHANGED clients

\* second._scrape_page(url, depth) on a document of the same text
SegTwin ==
    /\ pc = "first_ran"
    /\ requests[1].resp.status = "ok"
    /\ \E head \in Heads, depth \in {0, DefaultMaxDepth} :
          \E r \in {ScrapePage(twin.self, twin.max_pages, requests[1].url, depth,
                               DefaultMaxDepth,
                               Document(requests[1].url, head[1], head[2],
                                        requests[1].resp.text))} :
              twin' = [twin EXCEPT !.self = r.self, !.ran = TRUE]
    /\ pc' = "both_ran"
    /\ UNCHANGED <<max_pages, visited_urls, pages, sections, paragraphs, index, result,
                   disk, save_failed_at, requests, last_call, candidates>>
    /\ UNCHANGED clients

SegNext == SegFirst \/ SegTwin

SegSpec == SegInit /\ [][SegNext]_vars

(***************************************************************************)
(* Vocabulary of the properties.                                           *)
(***************************************************************************)
Indices(list) == 1..Len(list)

\* a crawl phase of scrape_website has run
AfterCrawl == pc \in {"crawled", "returned"}

\* the requests that returned a document / that failed
OkRequests == {i \in Indices(requests) : requests[i].resp.status = "ok"}
FailedRequests == {i \in Indices(requests) : requests[i].resp.status \in FetchErrors}

\* the normalized content of the document of request i
ContentOf(i) == NormalizeText(requests[i].resp.text)

\* the lines of a text
Lines(text) == LET l == Split(text, <<NL>>) IN {l[j] : j \in Indices(l)}

PagesOf(url) == {k \in Indices(pages) : pages[k].url = url}
SectionsOf(url) == {k \in Indices(sections) : sections[k].url = url}
ParagraphsOf(url) == {k \in Indices(paragraphs) : paragraphs[k].url = url}

\* the contents of the paragraphs of url, in the order of self.paragraphs
ParagraphTexts(url) ==
    LET own == SelectSeq(paragraphs, LAMBDA para : para.url = url)
    IN  [k \in Indices(own) |-> own[k].content]

\* this step is a _scrape_page call (its arguments are last_call')
IsScrapePageStep ==
    \/ pc' \in {"calls", "call_raised"}
    \/ pc = "new" /\ pc' \in {"crawled", "returned"}

\* the step fetched nothing and left the scraper as it was
NothingDone == UNCHANGED <<visited_urls, pages, sections, paragraphs, index, requests>>

(***************************************************************************)
(* C1: every section record has paragraph_count >= 1, and its              *)
(* paragraph_count is the number of paragraph records whose section_id is  *)
(* the section's id.                                                       *)
(***************************************************************************)
C1_SectionParagraphCount ==
    \A i \in Indices(sections) :
        /\ sections[i].paragraph_count >= 1
        /\ sections[i].paragraph_count =
              Cardinality({k \in Indices(paragraphs) :
                              paragraphs[k].section_id = sections[i].id})

\* a finished crawl that kept a section of two paragraphs
C1_Witness ==
    /\ pc = "returned"
    /\ \E i \in Indices(sections) : sections[i].paragraph_count = 2

(***************************************************************************)
(* C2: every paragraph record has character_count = len(content) and       *)
(* len(content) > 20, its content is trimmed, and the index entry at the    *)
(* same position carries the same id and the same character_count.         *)
(***************************************************************************)
C2_ParagraphRecord ==
    /\ Len(index.paragraphs) = Len(paragraphs)
    /\ \A k \in Indices(paragraphs) :
          /\ paragraphs[k].character_count = Len(paragraphs[k].content)
          /\ Len(paragraphs[k].content) > 20
          /\ paragraphs[k].content = Strip(paragraphs[k].content)
          /\ index.paragraphs[k].id = paragraphs[k].id
          /\ index.paragraphs[k].character_count = paragraphs[k].character_count

\* a paragraph of exactly 21 characters was admitted from a page that also
\* had a candidate of 20
C2_Witness ==
    \E k \in Indices(paragraphs) :
        /\ paragraphs[k].character_count = 21
        /\ \E i \in OkRequests :
              /\ requests[i].url = paragraphs[k].url
              /\ \E line \in Lines(ContentOf(i)) : Len(line) = 20

(***************************************************************************)
(* C3: no two page records have the same URL, and a _scrape_page call for  *)
(* a URL already in visited_urls fetches nothing and leaves visited_urls,  *)
(* pages, sections, paragraphs and index unchanged.                        *)
(***************************************************************************)
C3_Dedup ==
    /\ [](\A j, k \in Indices(pages) : pages[j].url = pages[k].url => j = k)
    /\ [][(IsScrapePageStep /\ last_call'.url \in visited_urls) => NothingDone]_vars

\* the latest call was for a URL visited before another one, with depth and
\* page cap leaving room: it was stopped by the dedup check alone
C3_Witness ==
    /\ pc = "calls"
    /\ last_call.url \in visited_urls
    /\ requests[Len(requests)].url # last_call.url
    /\ last_call.depth <= last_call.max_depth
    /\ Cardinality(visited_urls) < max_pages
    /\ pages # <<>>

(***************************************************************************)
(* C4: with max_pages >= 0, visited_urls never loses a URL and never holds *)
(* more than max_pages URLs; a _scrape_page call with depth > max_depth or *)
(* with max_pages URLs already visited fetches nothing and adds nothing.   *)
(***************************************************************************)
C4_VisitedCap ==
    /\ [](max_pages >= 0 => Cardinality(visited_urls) <= max_pages)
    /\ [][/\ visited_urls \subseteq visited_urls'
          /\ (/\ IsScrapePageStep
              /\ \/ last_call'.depth > last_call'.max_depth
                 \/ Cardinality(visited_urls) >= max_pages)
                => NothingDone]_vars

\* the cap is reached: two URLs visited with max_pages = 2, and the latest
\* call, for a third URL at an allowed depth, added nothing
C4_Witness ==
    /\ pc = "calls"
    /\ max_pages = 2
    /\ Cardinality(visited_urls) = max_pages
    /\ last_call.url \notin visited_urls
    /\ last_call.depth <= last_call.max_depth

(***************************************************************************)
(* C5 as stated: with max_pages = 1 a crawl run produces exactly one Page  *)
(* record.                                                                 *)
(***************************************************************************)
C5_ExactlyOnePage == (AfterCrawl /\ max_pages = 1) => Len(pages) = 1

(***************************************************************************)
(* C5 amended: with max_pages = 1 at most one Page record is ever          *)
(* produced, whatever links the pages carry; a crawl run produces one      *)
(* exactly when the fetch of the seed succeeds and its normalized content  *)
(* has at least 50 characters, and none otherwise.                         *)
(***************************************************************************)
C5_AtMostOnePage ==
    max_pages = 1 =>
        /\ Len(pages) <= 1
        /\ AfterCrawl =>
              (Len(pages) = 1 <=>
                  /\ requests # <<>>
                  /\ requests[1].url = BaseUrl
                  /\ requests[1].resp.status = "ok"
                  /\ Len(ContentOf(1)) >= 50)

\* a finished run with max_pages = 1 whose seed page carries links
C5_Witness ==
    /\ pc = "returned"
    /\ max_pages = 1
    /\ Len(pages) = 1
    /\ requests[1].resp.links # {}

(***************************************************************************)
(* C6 as stated: after the crawl phase, every page linked from a page      *)
(* fetched at depth < max_depth is visited, unless max_pages URLs have     *)
(* been visited.  (The only page scrape_website fetches is the seed, at    *)
(* depth 0.)                                                               *)
(***************************************************************************)
C6_LinkedPagesVisited ==
    AfterCrawl =>
        \A i \in OkRequests :
            (requests[i].url = BaseUrl /\ 0 < DefaultMaxDepth) =>
                \A link \in requests[i].resp.links :
                    link \in visited_urls \/ Cardinality(visited_urls) >= max_pages

(***************************************************************************)
(* C7: a fetch failure does not leave _scrape_page: no page, section or     *)
(* paragraph exists for a URL whose fetch failed, and a crawl whose seed    *)
(* fetch failed goes on to the save phase, which alone decides what         *)
(* scrape_website returns.                                                 *)
(***************************************************************************)
C7_FetchFailureCaught ==
    /\ pc # "call_raised"
    /\ \A i \in FailedRequests :
          /\ PagesOf(requests[i].url) = {}
          /\ SectionsOf(requests[i].url) = {}
          /\ ParagraphsOf(requests[i].url) = {}
          /\ pc = "returned" => (result = "True" <=> save_failed_at = 0)
          /\ pc = "returned" /\ save_failed_at = 0 =>
                disk = << <<"index.json">>, <<"complete_export.json">> >>

\* the seed fetch timed out and the run still saved and returned True
C7_Witness ==
    /\ pc = "returned"
    /\ result = "True"
    /\ requests = <<[url |-> BaseUrl, resp |-> ErrorResponse("timeout")]>>
    /\ disk # <<>>

(***************************************************************************)
(* C8: the save phase leaves pages, sections and paragraphs as the crawl   *)
(* phase computed them, and when it raises scrape_website returns False    *)
(* (it does not raise).                                                    *)
(***************************************************************************)
C8_SaveFailureReported ==
    [][pc = "crawled" =>
          /\ pages' = pages /\ sections' = sections /\ paragraphs' = paragraphs
          /\ visited_urls' = visited_urls
          /\ pc' = "returned"
          /\ result' \in {"True", "False"}
          /\ save_failed_at' # 0 => result' = "False"]_vars

\* a run that collected a page and paragraphs, failed in the save phase and
\* returned False with the collections in place
C8_Witness ==
    /\ pc = "returned"
    /\ save_failed_at # 0
    /\ result = "False"
    /\ Len(pages) = 1
    /\ Len(paragraphs) >= 2

\* the paragraphs the segmenter is to admit from content: from every
\* candidate section of at least 30 characters, the trimmed candidates of
\* more than 20
ExpectedParagraphs(content) ==
    LET cands == SectionsText(content)
        admitted(c) ==
            LET pc0 == ParaCandidates(c)
            IN  SelectSeq([k \in Indices(pc0) |-> Strip(pc0[k])], LAMBDA t : Len(t) >= 21)
    IN  Flatten([i \in Indices(cands) |->
                    IF Len(cands[i]) >= 30 THEN admitted(cands[i]) ELSE <<>>])

C10_ShortPageNotSegmented ==
    /\ pc # "call_raised"
    /\ AfterCrawl => (pc = "returned" => save_failed_at # 0 \/ result = "True")
    /\ \A i \in OkRequests :
          \A content \in {ContentOf(i)} :
              Len(content) < 100 =>
                  /\ SectionsOf(requests[i].url) = {}
                  /\ ParagraphsOf(requests[i].url) = {}
                  /\ Len(content) >= 50 => PagesOf(requests[i].url) # {}

\* a page of 99 characters with lines long enough to be paragraphs, kept
\* without section
C10_Witness ==
    /\ pc = "returned"
    /\ result = "True"
    /\ \E k \in Indices(pages) :
          /\ pages[k].character_count = 99
          /\ SectionsOf(pages[k].url) = {}
          /\ ParagraphsOf(pages[k].url) = {}
          /\ \E line \in Lines(pages[k].content) : Len(line) > 20
(***************************************************************************)
(* The scripts that talk to the platform: one of them runs per session.    *)
(***************************************************************************)
Programs == {"chat.py", "check_status.py", "ingest.py"}

PlatformInit ==
    /\ max_pages = 0
    /\ visited_urls = NewScraper(BaseUrl).visited_urls
    /\ pages = NewScraper(BaseUrl).pages
    /\ sections = NewScraper(BaseUrl).sections
    /\ paragraphs = NewScraper(BaseUrl).paragraphs
    /\ index = NewScraper(BaseUrl).index
    /\ pc = "new"
    /\ result = "none"
    /\ disk = <<>>
    /\ save_failed_at = 0
    /\ requests = <<>>
    /\ last_call = NoCall
    /\ twin = NoTwin
    /\ candidates = <<>>
    /\ program \in Programs
    /\ chat = IF program = "chat.py" THEN [NoChat EXCEPT !.pc = "prompt"] ELSE NoChat
    /\ poll \in IF program = "check_status.py"
                THEN {NewPoll(mode, m) : mode \in {"once", "continuous"},
                                         m \in 0..MaxAttemptsBound}
                ELSE {NoPoll}
    /\ ingest = IF program = "ingest.py" THEN NewIngest ELSE NoIngest

\* main reads a line that is empty once trimmed
ChatEmptyInput ==
    /\ program = "chat.py"
    /\ chat.pc = "prompt"
    /\ Len(chat.history) < MaxInputs
    /\ \E raw \in Inputs :
          /\ Strip(raw) = <<>>
          /\ chat' = [chat EXCEPT !.history = Append(@, raw),
                                  !.last = "empty",
                                  !.display = Display("Please enter a valid question.", <<>>)]
    /\ UNCHANGED <<program, poll, ingest>>
    /\ UNCHANGED scraper

\* main reads an exit command
ChatExit ==
    /\ program = "chat.py"
    /\ chat.pc = "prompt"
    /\ Len(chat.history) < MaxInputs
    /\ \E raw \in Inputs :
          \E question \in {Strip(raw)} :
              /\ question # <<>>
              /\ IsExitCommand(question)
              /\ chat' = [chat EXCEPT !.history = Append(@, raw),
                                      !.last = "exit",
                                      !.pc = "ended",
                                      !.summary = Summary("Session ended", chat.query_count)]
    /\ UNCHANGED <<program, poll, ingest>>
    /\ UNCHANGED scraper

\* main reads a question and runs search_and_display on it
ChatQuery ==
    /\ program = "chat.py"
    /\ chat.pc = "prompt"
    /\ Len(chat.history) < MaxInputs
    /\ \E raw \in Inputs :
          \E question \in {Strip(raw)} :
              /\ question # <<>>
              /\ ~IsExitCommand(question)
              /\ \E client \in ClientOutcomes, response \in SearchResponses,
                     llm \in LlmOutcomes :
                    \E outcome \in {SearchAndDisplay(client, response, llm)} :
                        \E r \in {ProcessQuery(chat.query_count, outcome)} :
                            chat' = [chat EXCEPT !.history = Append(@, raw),
                                                !.last = "query",
                                                !.pc = r.pc,
                                                !.query_count = r.query_count,
                                                !.display = r.display,
                                                !.asked = Asked(client, response, llm,
                                                                outcome),
                                                !.searches = @ + outcome.searches,
                                                !.failed = IF outcome.ret = "True"
                                                           THEN @ ELSE @ + 1]
    /\ UNCHANGED <<program, poll, ingest>>
    /\ UNCHANGED scraper

\* KeyboardInterrupt, at the prompt or while a question is being searched
ChatInterrupt ==
    /\ program = "chat.py"
    /\ chat.pc = "prompt"
    /\ \/ chat' = [chat EXCEPT !.last = "interrupt",
                                !.pc = "ended",
                                !.summary = Summary("Interrupted", chat.query_count)]
       \/ /\ Len(chat.history) < MaxInputs
          /\ \E raw \in Inputs, issued \in {0, 1} :
                \E question \in {Strip(raw)} :
                    /\ question # <<>>
                    /\ ~IsExitCommand(question)
                    /\ chat' = [chat EXCEPT !.history = Append(@, raw),
                                            !.last = "interrupt",
                                            !.pc = "ended",
                                            !.query_count = @ + 1,
                                            !.searches = @ + issued,
                                            !.summary =
                                                Summary("Interrupted", chat.query_count + 1)]
    /\ UNCHANGED <<program, poll, ingest>>
    /\ UNCHANGED scraper

\* EOFError: the input stream ends
ChatEof ==
    /\ program = "chat.py"
    /\ chat.pc = "prompt"
    /\ chat' = [chat EXCEPT !.last = "eof",
                            !.pc = "ended",
                            !.summary = Summary("Session ended", chat.query_count)]
    /\ UNCHANGED <<program, poll, ingest>>
    /\ UNCHANGED scraper

\* check_status.py <process_id>: one check_status call
StatusOnce ==
    /\ program = "check_status.py"
    /\ poll.mode = "once"
    /\ poll.pc = "start"
    /\ \E client \in ClientOutcomes, response \in StatusResponses :
          \E r \in {CheckStatus(client, response)} :
              poll' = [poll EXCEPT !.pc = IF r.raised THEN "raised" ELSE "returned",
                                  !.checks = @ + 1,
                                  !.asked = [client |-> client, response |-> response,
                                             outcome |-> r]]
    /\ UNCHANGED <<program, chat, ingest>>
    /\ UNCHANGED scraper

\* check_status_continuous: one round of the loop, from its check to its sleep
StatusRound ==
    /\ program = "check_status.py"
    /\ poll.mode = "continuous"
    /\ poll.pc = "start"
    /\ poll.attempt < poll.max_attempts
    /\ \E client \in ClientOutcomes, response \in StatusResponses :
          \E r \in {CheckStatus(client, response)} :
              poll' = [PollRound(poll, r) EXCEPT
                          !.asked = [client |-> client, response |-> response,
                                     outcome |-> r]]
    /\ UNCHANGED <<program, chat, ingest>>
    /\ UNCHANGED scraper

\* check_status_continuous: the attempts are used up
StatusTimeout ==
    /\ program = "check_status.py"
    /\ poll.mode = "continuous"
    /\ poll.pc = "start"
    /\ ~(poll.attempt < poll.max_attempts)
    /\ poll' = [poll EXCEPT !.pc = "returned", !.ret = "False"]
    /\ UNCHANGED <<program, chat, ingest>>
    /\ UNCHANGED scraper

\* python ingest.py: ingest_content() and the exit
IngestRun ==
    /\ program = "ingest.py"
    /\ ingest.pc = "start"
    /\ \E index_file \in IndexFiles, client \in ClientOutcomes,
           response \in CrawlResponses :
          \E r \in {IngestContent(index_file, client, response)} :
              ingest' = [ pc |-> IF r.ret = "raised" THEN "raised" ELSE "exited",
                          index_file |-> index_file, client |-> client,
                          response |-> response, outcome |-> r,
                          exit_code |-> ExitCode(r.ret) ]
    /\ UNCHANGED <<program, chat, poll>>
    /\ UNCHANGED scraper

\* KeyboardInterrupt in the loop of check_status_continuous, during a check
\* or a sleep: nothing catches it, the script ends
StatusInterrupt ==
    /\ program = "check_status.py"
    /\ poll.mode = "continuous"
    /\ poll.pc = "start"
    /\ poll.attempt < poll.max_attempts
    /\ poll' = [poll EXCEPT !.pc = "interrupted"]
    /\ UNCHANGED <<program, chat, ingest>>
    /\ UNCHANGED scraper

PlatformNext ==
    \/ ChatEmptyInput
    \/ ChatExit
    \/ ChatQuery
    \/ ChatInterrupt
    \/ ChatEof
    \/ StatusOnce
    \/ StatusRound
    \/ StatusTimeout
    \/ StatusInterrupt
    \/ IngestRun

PlatformSpec == PlatformInit /\ [][PlatformNext]_vars

Searched ==
    /\ chat.last = "query"
    /\ chat.asked.client = "ok"
    /\ chat.asked.response.kind = "search"

\* the search data of the latest search passes both validations
PassesBothChecks ==
    /\ Searched
    /\ chat.asked.response.results # <<>>
    /\ chat.asked.response.count # 0
    /\ chat.asked.response.score >= 50

\* the LLM call of the latest search gave no usable response
LlmFailed ==
    \/ chat.asked.llm.kind = "raises"
    \/ chat.asked.llm.status_code # 200
    \/ chat.asked.llm.content = <<>>

\* the typed lines that are an exit command once trimmed, and those that
\* are a question
ExitSpellings == {<<"e", "x", "i", "t">>, <<SP, "Q", "u", "i", "t", SP>>, <<"Q">>}
BlankSpellings == {<<>>, <<SP, SP>>}
QuestionSpellings == Inputs \ (ExitSpellings \cup BlankSpellings)

\* the line the step has just read
ReadsLine == Len(chat'.history) = Len(chat.history) + 1
LineRead == chat'.history[Len(chat'.history)]

(***************************************************************************)
(* C12 as stated: a search result whose score is below 50 makes the client *)
(* report "low relevance" and display no answer, whatever the count.       *)
(***************************************************************************)
C12_LowRelevanceWhateverCount ==
    (Searched /\ chat.asked.response.score < 50) =>
        /\ chat.display.banner = "LOW RELEVANCE"
        /\ chat.asked.outcome.ret = "False"
        /\ chat.asked.outcome.llm_calls = 0

(***************************************************************************)
(* C12 amended: a search result whose score is below 50 displays no answer *)
(* and returns False without calling the LLM; the client reports "low      *)
(* relevance" when the result list is non-empty and the count is not 0,    *)
(* and "no information found" when the list is empty or the count is 0.    *)
(***************************************************************************)
C12_LowRelevanceUnlessEmpty ==
    (Searched /\ chat.asked.response.score < 50) =>
        /\ chat.display.banner \in {"LOW RELEVANCE", "NO INFORMATION FOUND"}
        /\ chat.display.body = <<>>
        /\ chat.asked.outcome.ret = "False"
        /\ chat.asked.outcome.llm_calls = 0
        /\ chat.display.banner = "LOW RELEVANCE" <=>
              /\ chat.asked.response.results # <<>>
              /\ chat.asked.response.count # 0

\* a search of score 49 with three results was reported as of low relevance
C12_Witness ==
    /\ Searched
    /\ chat.asked.response.score = 49
    /\ chat.asked.response.count = 3
    /\ chat.asked.response.results # <<>>
    /\ chat.display.banner = "LOW RELEVANCE"

(***************************************************************************)
(* C13: the empty-result check comes first.  Whenever the result list is   *)
(* empty or the count is 0, search_and_display reports "no information     *)
(* found" and returns False whatever the score, and the LLM is not called. *)
(***************************************************************************)
C13_EmptyResultFirst ==
    (Searched /\ (chat.asked.response.results = <<>> \/ chat.asked.response.count = 0)) =>
        /\ chat.display.banner = "NO INFORMATION FOUND"
        /\ chat.asked.outcome.ret = "False"
        /\ chat.asked.outcome.llm_calls = 0

\* score 50 with count 0 and a non-empty list: no information found
C13_Witness ==
    /\ Searched
    /\ chat.asked.response.score = 50
    /\ chat.asked.response.count = 0
    /\ chat.asked.response.results # <<>>
    /\ chat.display.banner = "NO INFORMATION FOUND"

C15_SentinelAndEmptyInputs ==
    [][ReadsLine =>
          /\ LineRead \in ExitSpellings =>
                /\ chat'.pc = "ended"
                /\ chat'.searches = chat.searches
                /\ chat'.asked = chat.asked
          /\ LineRead \in BlankSpellings =>
                /\ chat'.pc = "prompt"
                /\ chat'.searches = chat.searches
                /\ chat'.asked = chat.asked
                /\ chat'.query_count = chat.query_count]_vars

\* a blank line, then " Quit ": the session ended and nothing was searched
C15_Witness ==
    /\ chat.history = <<<<SP, SP>>, <<SP, "Q", "u", "i", "t", SP>>>>
    /\ chat.pc = "ended"
    /\ chat.searches = 0
    /\ chat.query_count = 0

(***************************************************************************)
(* C16: no failure ends the chat loop.  After a search that fails, finds   *)
(* nothing or raises an exception other than an interrupt, the loop        *)
(* prompts again; the loop ends only on an exit command, an interrupt or   *)
(* the end of the input.                                                   *)
(***************************************************************************)
C16_FailuresKeepLoop ==
    /\ chat.last = "query" => chat.pc = "prompt"
    /\ chat.pc = "ended" => chat.last \in {"exit", "interrupt", "eof"}

\* a first search failed, a second question was read and its search raised
C16_Witness ==
    /\ Len(chat.history) = 2
    /\ chat.failed = 2
    /\ chat.last = "query"
    /\ chat.asked.outcome.ret = "raised"
    /\ chat.pc = "prompt"

(***************************************************************************)
(* C17: the chat loop ends on the end of the input and on an interrupt as  *)
(* it does on an exit command, and each time it prints a session summary   *)
(* whose count is the number of lines submitted as queries so far (the     *)
(* non-empty lines that are no exit command), failed searches included.    *)
(***************************************************************************)
C17_SummaryCountsQueries ==
    /\ chat.last \in {"exit", "interrupt", "eof"} => chat.pc = "ended"
    /\ chat.pc = "ended" =>
          /\ chat.summary.kind = IF chat.last = "interrupt"
                                 THEN "Interrupted" ELSE "Session ended"
          /\ chat.summary.count =
                Cardinality({k \in 1..Len(chat.history) :
                                chat.history[k] \in QuestionSpellings})

\* the input ended after two questions, one of which failed
C17_Witness ==
    /\ chat.last = "eof"
    /\ chat.pc = "ended"
    /\ chat.summary.count = 2
    /\ chat.failed = 1

(***************************************************************************)
(* Vocabulary of the status and ingestion properties.                      *)
(***************************************************************************)
Continuous == program = "check_status.py" /\ poll.mode = "continuous"

\* the rounds of check_status_continuous are counted and spaced as its
\* loop says, as long as no exception leaves a check
PollingBounded ==
    Continuous =>
        /\ poll.checks <= poll.max_attempts
        /\ poll.ret = "True" =>
              /\ poll.pc = "returned"
              /\ poll.asked.response.status = "complete"
              /\ poll.sleeps = poll.checks - 1
        /\ poll.ret = "False" =>
              /\ poll.pc = "returned"
              /\ poll.checks = poll.max_attempts
              /\ poll.sleeps = IF poll.checks = 0 THEN 0 ELSE poll.checks - 1
        /\ poll.pc = "start" =>
              poll.sleeps = IF poll.checks = poll.max_attempts /\ poll.checks > 0
                            THEN poll.checks - 1 ELSE poll.checks

\* the platform failed the latest call of the script that runs
SearchFailure ==
    /\ program = "chat.py"
    /\ chat.last = "query"
    /\ chat.asked.client = "raises" \/ chat.asked.response.kind = "raises"

StatusFailure ==
    /\ program = "check_status.py"
    /\ poll.checks > 0
    /\ poll.asked.client = "raises" \/ poll.asked.response.kind \in {"raises", "no_ingest"}

SubmitFailure ==
    /\ program = "ingest.py"
    /\ ingest.pc # "start"
    /\ ingest.client = "raises" \/ ingest.response.kind \in {"raises", "no_ingest"}

(***************************************************************************)
(* C18: check_status_continuous makes at most max_attempts status checks.  *)
(* It returns True at the first check that reports 'complete', with no     *)
(* check or sleep after it; otherwise it returns False after exactly       *)
(* max_attempts checks, without raising; it sleeps once between two checks *)
(* and not after the last one.                                             *)
(***************************************************************************)
C18_BoundedPolling ==
    /\ PollingBounded
    /\ Continuous => poll.pc # "raised"

(***************************************************************************)
(* C19: one ingest_content invocation issues at most one crawl_website     *)
(* request; when that request raises or returns no ingest record, the      *)
(* failure is reported, the function returns False (exit 1) and no second  *)
(* request is made.                                                        *)
(***************************************************************************)
C19_SingleSubmit ==
    (program = "ingest.py" /\ ingest.pc # "start") =>
        /\ ingest.outcome.submits <= 1
        /\ (ingest.outcome.submits >= 1
            /\ ingest.response.kind \in {"raises", "no_ingest"}) =>
              /\ ingest.outcome.submits = 1
              /\ ingest.outcome.ret = "False"
              /\ ingest.outcome.reported # ""
              /\ ingest.exit_code = 1

\* the hierarchical ingestion submitted once, the request raised, exit 1
C19_Witness ==
    /\ program = "ingest.py"
    /\ ingest.index_file = "valid"
    /\ ingest.response.kind = "raises"
    /\ ingest.outcome.submits = 1
    /\ ingest.exit_code = 1

(***************************************************************************)
(* C20: every failure of the external platform (at the ingestion submit,   *)
(* at a status check or at a search, the construction of the client        *)
(* included) is recovered locally: the operation returns a failure         *)
(* indicator (False or None) and no exception leaves ingest_content,       *)
(* check_status or search_and_display.                                     *)
(***************************************************************************)
C20_PlatformFailuresRecovered ==
    /\ SearchFailure => chat.asked.outcome.ret = "False"
    /\ StatusFailure =>
          /\ ~poll.asked.outcome.raised
          /\ poll.asked.outcome.response = None
    /\ SubmitFailure => ingest.outcome.ret = "False"

(***************************************************************************)
(* Vocabulary of the persistence properties.                               *)
(***************************************************************************)
\* _save_organized_data ran to its end
SaveCompleted ==
    \/ pc = "saved"
    \/ pc = "returned" /\ save_failed_at = 0 /\ disk # <<>>

\* the ids of a list of records or of index entries, in order
Ids(list) == <<>> \o [k \in 1..Len(list) |-> list[k].id]

(***************************************************************************)
(* C21: after _save_organized_data completes, index.total_pages,           *)
(* index.total_sections and index.total_paragraphs are the lengths of the  *)
(* pages, sections and paragraphs collections, and index.pages,            *)
(* index.sections and index.paragraphs list the ids of those collections,  *)
(* one entry per record, in the same order.                                *)
(***************************************************************************)
C21_IndexMatchesCollections ==
    SaveCompleted =>
        /\ index.total_pages = Len(pages)
        /\ index.total_sections = Len(sections)
        /\ index.total_paragraphs = Len(paragraphs)
        /\ Ids(index.pages) = Ids(pages)
        /\ Ids(index.sections) = Ids(sections)
        /\ Ids(index.paragraphs) = Ids(paragraphs)

\* a run saved a page with a section of several paragraphs
C21_Witness ==
    /\ pc = "returned"
    /\ result = "True"
    /\ index.total_pages = 1
    /\ index.total_sections = 1
    /\ index.total_paragraphs >= 2
    /\ Len(disk) = 2 + index.total_pages + index.total_sections + index.total_paragraphs

(***************************************************************************)
(* C22: every failure path of the batch scripts scrape and ingest (a fetch *)
(* error, a persistence error, an external-platform error) ends in a       *)
(* non-zero process exit; the script exits 0 only when the operation       *)
(* succeeded.                                                              *)
(***************************************************************************)
C22_FailuresExitNonZero ==
    /\ (program = "scrape.py" /\ pc = "returned") =>
          ((FailedRequests # {} \/ save_failed_at # 0) => ScrapeExit(result) # 0)
    /\ SubmitFailure => ingest.exit_code # 0

(***************************************************************************)
(* What the batch loops print when they end.                               *)
(***************************************************************************)
\* scrape_website: the success summary at the end of the try block, the
\* error line of except Exception, nothing when it never got there
ScrapeSummary ==
    IF pc = "returned" /\ result = "True" THEN "Scraping completed successfully!"
    ELSE IF pc = "returned" /\ result = "False" THEN "ERROR: Scraping failed"
    ELSE ""

\* check_status_continuous: the line ahead of return True, the lines ahead
\* of return False, nothing when it never got there
PollSummary ==
    IF poll.pc = "returned" /\ poll.ret = "True" THEN "Ingestion completed successfully!"
    ELSE IF poll.pc = "returned" /\ poll.ret = "False" THEN "Max attempts reached."
    ELSE ""

(***************************************************************************)
(* C23: a process-level interrupt raised during the crawl or during the    *)
(* status-poll loop ends that loop and prints a summary of the work        *)
(* completed so far.                                                       *)
(***************************************************************************)
C23_InterruptPrintsSummary ==
    /\ pc = "interrupted" => ScrapeSummary # ""
    /\ poll.pc = "interrupted" => PollSummary # ""

(***************************************************************************)
(* C24: for a section without internal newlines, the paragraph candidates  *)
(* produced by the greedy accumulation of the ". "-separated fragments     *)
(* never exceed 200 characters each.                                       *)
(***************************************************************************)
C24_ChunksWithinLimit ==
    \A i \in OkRequests :
        \A content \in {ContentOf(i)} :
            (\A j \in 1..Len(content) : content[j] # NL) =>
                \A k \in ParagraphsOf(requests[i].url) :
                    /\ paragraphs[k].character_count <= 200
                    /\ Len(paragraphs[k].content) <= 200


(***************************************************************************)
(* The loop over sections_text of _extract_sections_and_paragraphs, run on *)
(* lists of candidate sections.                                            *)
(***************************************************************************)
\* the longest list of candidate sections the loop is run on
MaxSections == 3

\* candidate sections: one below the 30 characters, one of exactly 30, one
\* whose lines are all too short for a paragraph, one of two paragraphs and
\* one with a paragraph and a line that is not admitted
SectionPool ==
    { Run("a", MinSectionChars - 1),
      Run("a", MinSectionChars),
      ListText(MinParagraphChars, 2),
      ListText(MinParagraphChars + 1, 2),
      Run("a", MinParagraphChars + 5) \o <<NL>> \o Run("b", 5) }

CandidateLists == UNION {[1..n -> SectionPool] : n \in 0..MaxSections}

\* a scraper whose segmenter loop is about to run on a list of candidates
LoopInit ==
    /\ max_pages = 1
    /\ visited_urls = NewScraper(BaseUrl).visited_urls
    /\ pages = NewScraper(BaseUrl).pages
    /\ sections = NewScraper(BaseUrl).sections
    /\ paragraphs = NewScraper(BaseUrl).paragraphs
    /\ index = NewScraper(BaseUrl).index
    /\ pc = "new"
    /\ result = "none"
    /\ disk = <<>>
    /\ save_failed_at = 0
    /\ requests = <<>>
    /\ last_call = NoCall
    /\ twin = NoTwin
    /\ candidates \in CandidateLists
    /\ program = "scrape.py"
    /\ chat = NoChat
    /\ poll = NoPoll
    /\ ingest = NoIngest

\* section_counter = 0, paragraph_counter = 0, then the loop over
\* sections_text and its appends to the collections and to the index
SegmentLoop ==
    /\ pc = "new"
    /\ \E seg \in {ProcessSections(BaseUrl, GenerateId(<<BaseUrl>>), candidates, 1,
                                   [ section_counter |-> 0, paragraph_counter |-> 0,
                                     sections |-> <<>>, ix_sections |-> <<>>,
                                     paragraphs |-> <<>>, ix_paragraphs |-> <<>> ])} :
          /\ sections' = sections \o seg.sections
          /\ paragraphs' = paragraphs \o seg.paragraphs
          /\ index' = [ index EXCEPT
                          !.sections = index.sections \o seg.ix_sections,
                          !.paragraphs = index.paragraphs \o seg.ix_paragraphs ]
    /\ pc' = "segmented"
    /\ UNCHANGED <<max_pages, visited_urls, pages, result, disk, save_failed_at,
                   requests, last_call, twin, candidates>>
    /\ UNCHANGED clients

LoopNext == SegmentLoop

LoopSpec == LoopInit /\ [][LoopNext]_vars

\* the candidates the loop counts, and those of them that admit a paragraph
Counted == {j \in Indices(candidates) : Len(candidates[j]) >= MinSectionChars}
Admitting ==
    {j \in Counted : \E line \in Lines(candidates[j]) : Len(Strip(line)) > MinParagraphChars}

\* the ordinal an id was derived from
Ordinal(id) == id[4]

\* C25: the paragraphs of a page carry the ordinals 1..k in document order
\* whatever section they belong to, so a candidate that is not admitted
\* takes no ordinal; the sections kept are those of the candidates of 30
\* characters or more that admit a paragraph, and the ordinal of each is
\* the number of candidates of 30 characters or more up to its own, the
\* discarded ones included and those below 30 characters not
C25_OrdinalsOfLoop ==
    pc = "segmented" =>
        /\ \A k \in Indices(paragraphs) :
              paragraphs[k].id = GenerateId(<<BaseUrl, "#para#", k>>)
        /\ Len(sections) = Cardinality(Admitting)
        /\ \A j \in Admitting :
              /\ Ordinal(sections[Cardinality({i \in Admitting : i <= j})].id)
                    = Cardinality({i \in Counted : i <= j})
              /\ \E k \in Indices(paragraphs) :
                    paragraphs[k].section_id
                        = sections[Cardinality({i \in Admitting : i <= j})].id

\* a candidate below 30 characters, a discarded one and a kept one: the
\* section kept has ordinal 2 and its paragraphs the ordinals 1 and 2
C25_Witness ==
    /\ pc = "segmented"
    /\ Len(candidates) = MaxSections
    /\ Len(candidates[1]) < MinSectionChars
    /\ Counted = {2, 3}
    /\ Admitting = {3}
    /\ Len(sections) = 1
    /\ Ordinal(sections[1].id) = 2
    /\ Len(paragraphs) = 2
    /\ Ordinal(paragraphs[2].id) = 2


(***************************************************************************)
(* C26: a failed status check uses up one attempt and polling goes on.     *)
(***************************************************************************)
\* the step is a round of check_status_continuous whose check_status call
\* returned None: the API raised, or answered without an ingest object
FailedCheckRound ==
    /\ Continuous
    /\ poll'.checks = poll.checks + 1
    /\ ~poll'.asked.outcome.raised
    /\ poll'.asked.outcome.response = None

\* C26: a round of check_status_continuous whose check returned None adds
\* one to attempt and returns nothing; the loop is back at its test, which
\* lets the next check through when attempts remain, and the 5 second
\* sleep was taken exactly when they do
C26_FailedCheckConsumesAttempt ==
    [][FailedCheckRound =>
          /\ poll'.attempt = poll.attempt + 1
          /\ poll'.pc = "start"
          /\ poll'.ret = ""
          /\ poll'.sleeps = IF poll'.attempt < poll'.max_attempts
                            THEN poll.sleeps + 1 ELSE poll.sleeps
          /\ poll'.max_attempts = poll.max_attempts]_vars

\* the second check failed with an empty response, one attempt is left and
\* the loop has slept after it
C26_Witness ==
    /\ Continuous
    /\ poll.asked.response.kind \in {"raises", "no_ingest"}
    /\ poll.asked.client = "ok"
    /\ poll.checks = 2
    /\ poll.attempt = 2
    /\ poll.max_attempts = 3
    /\ poll.sleeps = 2
    /\ poll.pc = "start"


(***************************************************************************)
(* C27: a fetched page contributes at most one section.                    *)
(***************************************************************************)
\* two consecutive newlines somewhere in text
HasBlankLine(text) ==
    \E j \in 1..(Len(text) - 1) : text[j] = NL /\ text[j + 1] = NL

\* C27: the normalized content of every fetched document has no two
\* consecutive newlines, its split on blank lines has exactly one element,
\* and no URL has more than one section in self.sections
C27_OneSectionPerPage ==
    /\ \A i \in OkRequests :
          \A content \in {ContentOf(i)} :
              /\ ~HasBlankLine(content)
              /\ Len(SectionsText(content)) = 1
    /\ \A url \in Urls : Cardinality(SectionsOf(url)) <= 1

\* a document whose text has a blank line between two blocks was fetched
\* and segmented: both blocks are paragraphs of its one section
C27_Witness ==
    \E i \in OkRequests :
        /\ HasBlankLine(requests[i].resp.text)
        /\ Cardinality(SectionsOf(requests[i].url)) = 1
        /\ Cardinality(ParagraphsOf(requests[i].url)) >= 2


(***************************************************************************)
(* C28: referential integrity of the three collections.                    *)
(***************************************************************************)
\* the records of self.pages with this id and url
PageRecords(page_id, url) ==
    {p \in Indices(pages) : pages[p].id = page_id /\ pages[p].url = url}

\* C28: the page_id of every section and of every paragraph is not None
\* and is the id of a record of self.pages; the section_id of every
\* paragraph is the id of a record of self.sections that has the
\* paragraph's page_id and url
C28_ReferentialIntegrity ==
    /\ \A s \in Indices(sections) :
          /\ sections[s].page_id # None
          /\ PageRecords(sections[s].page_id, sections[s].url) # {}
    /\ \A k \in Indices(paragraphs) :
          /\ paragraphs[k].page_id # None
          /\ PageRecords(paragraphs[k].page_id, paragraphs[k].url) # {}
          /\ \E s \in Indices(sections) :
                /\ sections[s].id = paragraphs[k].section_id
                /\ sections[s].page_id = paragraphs[k].page_id
                /\ sections[s].url = paragraphs[k].url

\* two pages were segmented and a third fetch gave no page: the last
\* paragraph belongs to the second section and to the second page
C28_Witness ==
    /\ Len(pages) = 2
    /\ Len(sections) = 2
    /\ Len(requests) > Len(pages)
    /\ paragraphs[Len(paragraphs)].section_id = sections[2].id
    /\ paragraphs[Len(paragraphs)].page_id = pages[2].id
    /\ sections[2].page_id = pages[2].id
    /\ pages[1].id # pages[2].id


(***************************************************************************)
(* C29: a URL is marked visited before it is fetched.                      *)
(***************************************************************************)
\* the documents fetched that gave no page record
ThinRequests == {i \in OkRequests : PagesOf(requests[i].url) = {}}

\* C29: every URL a fetch was made for is in visited_urls, whether the
\* fetch failed, gave a page too thin for a record or gave a page, and a
\* crawl interrupted during its fetch has the URL marked already; no URL
\* is fetched twice; with max_pages >= 0 the fetches, failed and thin ones
\* included, number at most max_pages; and self.pages is never longer
\* than visited_urls
C29_VisitedBeforeFetch ==
    /\ \A i \in Indices(requests) : requests[i].url \in visited_urls
    /\ pc = "interrupted" => (BaseUrl \in visited_urls /\ requests = <<>>)
    /\ \A i, j \in Indices(requests) : requests[i].url = requests[j].url => i = j
    /\ max_pages >= 0 => Len(requests) <= max_pages
    /\ Len(pages) <= Cardinality(visited_urls)

\* a fetch that failed and a page too thin, no page record, both URLs
\* visited, and the latest call, for the URL whose fetch failed, made no
\* request although the cap left room
C29_Witness ==
    /\ pc = "calls"
    /\ Len(requests) = 2
    /\ FailedRequests = {1}
    /\ ThinRequests = {2}
    /\ pages = <<>>
    /\ Cardinality(visited_urls) = 2
    /\ max_pages = 3
    /\ last_call.url = requests[1].url
    /\ last_call.depth <= last_call.max_depth


(***************************************************************************)
(* C30: the order of the files of the save phase.                          *)
(***************************************************************************)
\* the place of a file in the order of _save_organized_data
Rank(file) ==
    CASE file[1] = "pages" -> 1
      [] file[1] = "sections" -> 2
      [] file[1] = "paragraphs" -> 3
      [] file[1] = "index.json" -> 4
      [] file[1] = "complete_export.json" -> 5

\* the files written before the i-th one
WrittenBefore(i) == {disk[j] : j \in 1..(i - 1)}

\* the save phase raised on makedirs or on the file of a page, a section
\* or a paragraph
EntityWriteFailed ==
    /\ save_failed_at # 0
    /\ save_failed_at <= 1 + Len(pages) + Len(sections) + Len(paragraphs)

\* C30: the files on disk were written pages first, then sections, then
\* paragraphs, then index.json, then complete_export.json; when index.json
\* is there, the file of every page, section and paragraph was written
\* before it; a save that raised on an entity file wrote no index.json;
\* and a save that did not raise ended with index.json and the export
C30_SaveOrder ==
    /\ \A i, j \in Indices(disk) : i < j => Rank(disk[i]) <= Rank(disk[j])
    /\ \A i \in Indices(disk) :
          disk[i] = <<"index.json">> =>
              /\ \A p \in Indices(pages) : <<"pages", pages[p].id>> \in WrittenBefore(i)
              /\ \A s \in Indices(sections) :
                    <<"sections", sections[s].id>> \in WrittenBefore(i)
              /\ \A k \in Indices(paragraphs) :
                    <<"paragraphs", paragraphs[k].id>> \in WrittenBefore(i)
    /\ EntityWriteFailed => \A i \in Indices(disk) : disk[i] # <<"index.json">>
    /\ (SaveCompleted /\ save_failed_at = 0) =>
          /\ Len(disk) >= 2
          /\ disk[Len(disk) - 1] = <<"index.json">>
          /\ disk[Len(disk)] = <<"complete_export.json">>

\* the save raised on a paragraph file: the page file, the section file
\* and a paragraph file are on disk, index.json is not, and scrape_website
\* returned False
C30_Witness ==
    /\ pc = "returned"
    /\ result = "False"
    /\ EntityWriteFailed
    /\ Len(pages) = 1
    /\ Len(sections) = 1
    /\ Len(disk) >= 3
    /\ disk[1] = <<"pages", pages[1].id>>
    /\ disk[2] = <<"sections", sections[1].id>>
    /\ disk[Len(disk)][1] = "paragraphs"

====
